---- MODULE Spec2Model ----
(***************************************************************************)
(* Model of cssSelectorBuilder (src/src/05-objects-tasks.js).              *)
(*                                                                         *)
(* The heap is a sequence of JavaScript objects.  An object is a TLA+      *)
(* record whose DOMAIN is the set of its OWN properties; a property that   *)
(* is not an own property is looked up on the prototype, which for every   *)
(* object made by the builder is cssSelectorBuilder itself (heap[Builder]).*)
(* Strings are sequences of one-character strings, so template literals    *)
(* are concatenations that can be compared character by character.         *)
(***************************************************************************)
EXTENDS Integers, Sequences, FiniteSets, TLC

\* Largest number of calls the client makes on the builder and its objects.
MaxCalls == 3

\* Index of the shared cssSelectorBuilder object on the heap.
Builder == 1

\* The strings passed as `value' to the append methods.
Values == { <<"a">>, <<"b">> }

\* The strings passed as `combinator' to combine.
Combinators == { <<"+">>, <<" ">> }

VARIABLES
  heap,   \* the objects: heap[Builder] is cssSelectorBuilder
  last,   \* the last call made and what it returned or threw
  chain,  \* history: for each object, the fragments appended to build it
  calls   \* history: the number of calls made so far

vars == <<heap, last, chain, calls>>

Objects == 1 .. Len(heap)

\* Property read obj.name: own property first, then the prototype.
Get(o, name) ==
  IF name \in DOMAIN heap[o] THEN heap[o][name] ELSE heap[Builder][name]

\* Property write obj.name = v: always creates or updates an own property.
Put(obj, name, v) ==
  [n \in DOMAIN obj \cup {name} |-> IF n = name THEN v ELSE obj[n]]

\* The data fields of the cssSelectorBuilder literal.
cssSelectorBuilder ==
  [currentSelector |-> <<>>, currentOrder |-> 0, currentSelectorType |-> ""]

\* checkCurrentOrder(object), called with this = self: what it throws, if
\* anything.
\* Mutant: id left out of the categories that may occur once only.
checkCurrentOrderIdRepeats(self, object) ==
  IF /\ Get(self, "currentOrder") = object.currentOrder
     /\ \/ object.currentSelectorType = "element"
        \/ object.currentSelectorType = "pseudoElement"
  THEN "DuplicateUniquePartError"
  ELSE IF Get(self, "currentOrder") > object.currentOrder
  THEN "OutOfOrderError"
  ELSE "ok"

\* Mutant: the order comparison left out.
checkCurrentOrderNoOrder(self, object) ==
  IF /\ Get(self, "currentOrder") = object.currentOrder
     /\ \/ object.currentSelectorType = "element"
        \/ object.currentSelectorType = "id"
        \/ object.currentSelectorType = "pseudoElement"
  THEN "DuplicateUniquePartError"
  ELSE "ok"

\* Mutant: the order comparison made non-strict.
checkCurrentOrderNonStrict(self, object) ==
  IF /\ Get(self, "currentOrder") = object.currentOrder
     /\ \/ object.currentSelectorType = "element"
        \/ object.currentSelectorType = "id"
        \/ object.currentSelectorType = "pseudoElement"
  THEN "DuplicateUniquePartError"
  ELSE IF Get(self, "currentOrder") >= object.currentOrder
  THEN "OutOfOrderError"
  ELSE "ok"

checkCurrentOrder(self, object) ==
  IF /\ Get(self, "currentOrder") = object.currentOrder
     /\ \/ object.currentSelectorType = "element"
        \/ object.currentSelectorType = "id"
        \/ object.currentSelectorType = "pseudoElement"
  THEN "DuplicateUniquePartError"
  ELSE IF Get(self, "currentOrder") > object.currentOrder
  THEN "OutOfOrderError"
  ELSE "ok"

\* The object literal each append method builds before validating it.
elementObj(self, value) ==
  [currentSelector |-> Get(self, "currentSelector") \o value,
   currentOrder |-> 1, currentSelectorType |-> "element"]

idObj(self, value) ==
  [currentSelector |-> Get(self, "currentSelector") \o <<"#">> \o value,
   currentOrder |-> 2, currentSelectorType |-> "id"]

classObj(self, value) ==
  [currentSelector |-> Get(self, "currentSelector") \o <<".">> \o value,
   currentOrder |-> 3, currentSelectorType |-> "class"]

attrObj(self, value) ==
  [currentSelector |->
     Get(self, "currentSelector") \o <<"[">> \o value \o <<"]">>,
   currentOrder |-> 4, currentSelectorType |-> "attr"]

pseudoClassObj(self, value) ==
  [currentSelector |-> Get(self, "currentSelector") \o <<":">> \o value,
   currentOrder |-> 5, currentSelectorType |-> "pseudoClass"]

\* Mutant: the pseudo-element fragment written with one colon.
pseudoElementObjOneColon(self, value) ==
  [currentSelector |-> Get(self, "currentSelector") \o <<":">> \o value,
   currentOrder |-> 6, currentSelectorType |-> "pseudoElement"]

pseudoElementObj(self, value) ==
  [currentSelector |->
     Get(self, "currentSelector") \o <<":", ":">> \o value,
   currentOrder |-> 6, currentSelectorType |-> "pseudoElement"]

\* Mutant: the combinator joined without the surrounding spaces.
combineObjNoSpaces(selector1, combinator, selector2) ==
  [currentSelector |->
     Get(selector1, "currentSelector") \o combinator
       \o Get(selector2, "currentSelector")]

\* Mutant: the combined object keeps the rank of the right operand.
combineObjKeepRank(selector1, combinator, selector2) ==
  [currentSelector |->
     Get(selector1, "currentSelector") \o <<" ">> \o combinator
       \o <<" ">> \o Get(selector2, "currentSelector"),
   currentOrder |-> Get(selector2, "currentOrder"),
   currentSelectorType |-> Get(selector2, "currentSelectorType")]

\* The object literal combine builds: it has one own property only.
combineObj(selector1, combinator, selector2) ==
  [currentSelector |->
     Get(selector1, "currentSelector") \o <<" ">> \o combinator
       \o <<" ">> \o Get(selector2, "currentSelector")]

(***************************************************************************)
(* History kept beside the heap (it is not program state): for each object *)
(* the categories and fragments appended since the root of its chain, the  *)
(* root being cssSelectorBuilder or the result of a combine; whether the   *)
(* chain is clean (rooted at cssSelectorBuilder, and no object on the way  *)
(* had its fragments read by stringify before the next append); and the    *)
(* number of stringify calls made on the object.                           *)
(***************************************************************************)
\* The fragment the documentation gives for a category and a value.
DocFragment(rank, value) ==
  CASE rank = 1 -> value
    [] rank = 2 -> <<"#">> \o value
    [] rank = 3 -> <<".">> \o value
    [] rank = 4 -> <<"[">> \o value \o <<"]">>
    [] rank = 5 -> <<":">> \o value
    [] rank = 6 -> <<":", ":">> \o value

\* The category rank the documentation gives each append method.
DocRank(op) ==
  CASE op = "element" -> 1
    [] op = "id" -> 2
    [] op = "class" -> 3
    [] op = "attr" -> 4
    [] op = "pseudoClass" -> 5
    [] op = "pseudoElement" -> 6

AppendOps ==
  {"element", "id", "class", "attr", "pseudoClass", "pseudoElement"}

RootChain ==
  [root |-> "builder", cats |-> <<>>, frags |-> <<>>,
   clean |-> TRUE, reads |-> 0]

ExtendChain(self, op, value) ==
  [root |-> chain[self].root,
   cats |-> Append(chain[self].cats, DocRank(op)),
   frags |-> chain[self].frags \o DocFragment(DocRank(op), value),
   clean |-> /\ chain[self].clean
             /\ chain[self].reads > 0 => chain[self].cats = <<>>,
   reads |-> 0]

CombinedChain ==
  [root |-> "combine", cats |-> <<>>, frags |-> <<>>,
   clean |-> FALSE, reads |-> 0]

Init ==
  /\ heap = << cssSelectorBuilder >>
  /\ last = [op |-> "init"]
  /\ chain = << RootChain >>
  /\ calls = 0

\* The common tail of the six append methods: setPrototypeOf, the check,
\* and the return of the new object or the throw.
AppendStep(op, self, value, obj) ==
  LET thrown == checkCurrentOrder(self, obj) IN
  /\ calls < MaxCalls
  /\ calls' = calls + 1
  /\ last' = [op |-> op, self |-> self, value |-> value, result |-> thrown]
  /\ IF thrown = "ok"
     THEN /\ heap' = Append(heap, obj)
          /\ chain' = Append(chain, ExtendChain(self, op, value))
     ELSE UNCHANGED <<heap, chain>>

element(self, value) ==
  AppendStep("element", self, value, elementObj(self, value))

id(self, value) ==
  AppendStep("id", self, value, idObj(self, value))

class(self, value) ==
  AppendStep("class", self, value, classObj(self, value))

attr(self, value) ==
  AppendStep("attr", self, value, attrObj(self, value))

pseudoClass(self, value) ==
  AppendStep("pseudoClass", self, value, pseudoClassObj(self, value))

pseudoElement(self, value) ==
  AppendStep("pseudoElement", self, value, pseudoElementObj(self, value))

\* Mutant: combine reads its operands with stringify, which clears them.
combineConsuming(selector1, combinator, selector2) ==
  /\ calls < MaxCalls
  /\ calls' = calls + 1
  /\ heap' = Append([o \in Objects |->
                       IF o \in {selector1, selector2}
                       THEN Put(heap[o], "currentSelector", <<>>)
                       ELSE heap[o]],
                    combineObj(selector1, combinator, selector2))
  /\ chain' = Append(chain, CombinedChain)
  /\ last' = [op |-> "combine", selector1 |-> selector1,
              combinator |-> combinator, selector2 |-> selector2,
              result |-> "ok"]

combine(selector1, combinator, selector2) ==
  /\ calls < MaxCalls
  /\ calls' = calls + 1
  /\ heap' = Append(heap, combineObj(selector1, combinator, selector2))
  /\ chain' = Append(chain, CombinedChain)
  /\ last' = [op |-> "combine", selector1 |-> selector1,
              combinator |-> combinator, selector2 |-> selector2,
              result |-> "ok"]

\* Mutant: stringify returns the text without clearing it.
stringifyNoClear(self) ==
  LET currentSelector == Get(self, "currentSelector") IN
  /\ calls < MaxCalls
  /\ calls' = calls + 1
  /\ heap' = heap
  /\ chain' = [chain EXCEPT ![self].reads = @ + 1]
  /\ last' = [op |-> "stringify", self |-> self, result |-> "ok",
              returned |-> currentSelector]

\* Mutant: stringify resets the rank and the kind along with the text.
stringifyResetAll(self) ==
  LET currentSelector == Get(self, "currentSelector") IN
  /\ calls < MaxCalls
  /\ calls' = calls + 1
  /\ heap' = [heap EXCEPT ![self] = cssSelectorBuilder]
  /\ chain' = [chain EXCEPT ![self].reads = @ + 1]
  /\ last' = [op |-> "stringify", self |-> self, result |-> "ok",
              returned |-> currentSelector]

stringify(self) ==
  LET currentSelector == Get(self, "currentSelector") IN
  /\ calls < MaxCalls
  /\ calls' = calls + 1
  /\ heap' = [heap EXCEPT ![self] = Put(heap[self], "currentSelector", <<>>)]
  /\ chain' = [chain EXCEPT ![self].reads = @ + 1]
  /\ last' = [op |-> "stringify", self |-> self, result |-> "ok",
              returned |-> currentSelector]

Next ==
  \/ \E self \in Objects, value \in Values : element(self, value)
  \/ \E self \in Objects, value \in Values : id(self, value)
  \/ \E self \in Objects, value \in Values : class(self, value)
  \/ \E self \in Objects, value \in Values : attr(self, value)
  \/ \E self \in Objects, value \in Values : pseudoClass(self, value)
  \/ \E self \in Objects, value \in Values : pseudoElement(self, value)
  \/ \E selector1 \in Objects, selector2 \in Objects,
        combinator \in Combinators :
          combine(selector1, combinator, selector2)
  \/ \E self \in Objects : stringify(self)

Spec == Init /\ [][Next]_vars

(***************************************************************************)
(* Properties.  `last' describes the call of the step just taken, so in an *)
(* action formula last' names the call, the unprimed variables the state   *)
(* it was made in and the primed ones the state it left.                   *)
(***************************************************************************)
DuplicateUniquePartError == "DuplicateUniquePartError"
OutOfOrderError == "OutOfOrderError"

\* The object a successful call has just created.
Created == Len(heap)

\* The categories that may occur once only.
UniqueRanks == {1, 2, 6}

\* The rank of the fragment appended last in a chain, 0 when there is none.
LastCat(c) == IF c.cats = <<>> THEN 0 ELSE c.cats[Len(c.cats)]

\* The documented outcome of appending rank k to a state of rank r.
DocOutcome(r, k) ==
  IF k = r /\ k \in UniqueRanks THEN DuplicateUniquePartError
  ELSE IF r > k THEN OutOfOrderError
  ELSE "ok"

\* C1: a successful append returns a state whose text is the receiver's
\* text followed by the category's fragment (v, #v, .v, [v], :v, ::v) and
\* whose rank is the category's rank (1..6); hence every chain of appends
\* from the initial builder holds, and stringify returns, the concatenation
\* of its fragments in call order.
C1_AppendStep ==
  (last'.op \in AppendOps /\ last'.result = "ok") =>
     /\ Len(heap') = Len(heap) + 1
     /\ heap'[Len(heap')].currentSelector =
          Get(last'.self, "currentSelector")
            \o DocFragment(DocRank(last'.op), last'.value)
     /\ heap'[Len(heap')].currentOrder = DocRank(last'.op)

C1_StringifyStep ==
  (/\ last'.op = "stringify"
   /\ chain[last'.self].clean
   /\ chain[last'.self].reads = 0) =>
     last'.returned = chain[last'.self].frags

C1_CleanText ==
  \A o \in Objects :
    (chain[o].clean /\ chain[o].reads = 0) =>
       Get(o, "currentSelector") = chain[o].frags

C1_AppendsConcatenate ==
  [][C1_AppendStep /\ C1_StringifyStep /\ C1_CleanText]_vars

\* C1 witness: element('a').attr('b') has been built and stringify has just
\* returned 'a[b]'.
C1_Witness ==
  /\ last.op = "stringify"
  /\ chain[last.self].cats = <<1, 4>>
  /\ chain[last.self].reads = 1
  /\ last.returned = <<"a", "[", "b", "]">>

\* A chain already holds a fragment of rank k.
Holds(c, k) == \E i \in DOMAIN c.cats : c.cats[i] = k

\* C2 (as stated): appending an element, id or pseudo-element fragment to a
\* chain that already holds a fragment of that category, anywhere earlier in
\* the chain, raises DuplicateUniquePartError.
C2_DuplicateAnywhere ==
  (/\ last.op \in {"element", "id", "pseudoElement"}
   /\ Holds(chain[last.self], DocRank(last.op))) =>
     last.result = DuplicateUniquePartError

\* C2 (amended): appending an element, id or pseudo-element fragment to a
\* chain that already holds a fragment of that category always raises an
\* error at that call: DuplicateUniquePartError when the fragment appended
\* last is of that category, OutOfOrderError when a fragment of a higher
\* rank was appended since.
C2_DuplicateOrOutOfOrder ==
  (/\ last.op \in {"element", "id", "pseudoElement"}
   /\ Holds(chain[last.self], DocRank(last.op))) =>
     last.result = IF LastCat(chain[last.self]) = DocRank(last.op)
                   THEN DuplicateUniquePartError
                   ELSE OutOfOrderError

\* C2 witness: id(..).class(..).id(..) has just raised OutOfOrderError.
C2_Witness ==
  /\ last.op = "id"
  /\ chain[last.self].cats = <<2, 3>>
  /\ last.result = OutOfOrderError

\* C3: appending a fragment whose rank is lower than the rank of a fragment
\* already in the chain raises OutOfOrderError at that very call, which
\* creates no state.
C3_Step ==
  (/\ last'.op \in AppendOps
   /\ \E i \in DOMAIN chain[last'.self].cats :
         chain[last'.self].cats[i] > DocRank(last'.op)) =>
     /\ last'.result = OutOfOrderError
     /\ heap' = heap

C3_LowerRankRaisesAtOnce == [][C3_Step]_vars

\* C3 witness: id(..).element(..) has just raised OutOfOrderError.
C3_Witness ==
  /\ last.op = "element"
  /\ chain[last.self].cats = <<2>>
  /\ last.result = OutOfOrderError

\* C4: combine(a, c, b) never fails and returns a state whose text is
\* a.text, one space, c, one space, b.text, for every combinator c; with
\* c = ' ' three spaces separate the operand texts.
C4_Step ==
  (last'.op = "combine") =>
     /\ last'.result = "ok"
     /\ Len(heap') = Len(heap) + 1
     /\ heap'[Len(heap')].currentSelector =
          Get(last'.selector1, "currentSelector") \o <<" ">>
            \o last'.combinator \o <<" ">>
            \o Get(last'.selector2, "currentSelector")
     /\ last'.combinator = <<" ">> =>
          heap'[Len(heap')].currentSelector =
            Get(last'.selector1, "currentSelector") \o <<" ", " ", " ">>
              \o Get(last'.selector2, "currentSelector")

C4_CombineText == [][C4_Step]_vars

\* C4 witness: a nested combine has just produced 'a + a   a'.
C4_Witness ==
  /\ last.op = "combine"
  /\ heap[Created].currentSelector =
       <<"a", " ", "+", " ", "a", " ", " ", " ", "a">>

\* C5: stringify returns the state's accumulated text and clears it, so
\* every later stringify on that state returns the empty string.
C5_Step ==
  (last'.op = "stringify") =>
     /\ last'.returned = Get(last'.self, "currentSelector")
     /\ heap'[last'.self].currentSelector = <<>>
     /\ chain[last'.self].reads > 0 => last'.returned = <<>>

C5_StringifySingleUse == [][C5_Step]_vars

\* C5 witness: the second stringify on a state built by an append has just
\* returned the empty string.
C5_Witness ==
  /\ last.op = "stringify"
  /\ chain[last.self].cats # <<>>
  /\ chain[last.self].reads = 2
  /\ last.returned = <<>>

\* C6: in every state built from the initial builder by successful appends
\* alone the ranks of the appended fragments never decrease, and element, id
\* and pseudo-element occur at most once each.
C6_ChainsWellFormed ==
  \A o \in Objects :
    chain[o].root = "builder" =>
      LET cats == chain[o].cats IN
      /\ \A i, j \in DOMAIN cats : i < j => cats[i] <= cats[j]
      /\ \A i, j \in DOMAIN cats :
           (cats[i] = cats[j] /\ cats[i] \in UniqueRanks) => i = j

\* C6 witness: a chain of three fragments, one category repeated, was built.
C6_Witness ==
  \E o \in Objects :
    /\ chain[o].root = "builder"
    /\ chain[o].cats = <<2, 3, 3>>

\* C7: an append of rank k on a state of rank r raises
\* DuplicateUniquePartError if k = r and k is element, id or pseudo-element,
\* else raises OutOfOrderError if r > k, and otherwise returns a new state;
\* so class, attr and pseudoClass repeat and every k > r succeeds.
C7_Step ==
  (last'.op \in AppendOps) =>
     LET r == Get(last'.self, "currentOrder")
         k == DocRank(last'.op)
     IN /\ last'.result = DocOutcome(r, k)
        /\ (k = r /\ k \in {3, 4, 5}) => last'.result = "ok"
        /\ k > r => last'.result = "ok"
        /\ Len(heap') = Len(heap) + (IF last'.result = "ok" THEN 1 ELSE 0)

C7_OutcomeTable == [][C7_Step]_vars

\* C7 witness: class(..) has just succeeded on a state whose rank is 3.
C7_Witness ==
  /\ last.op = "class"
  /\ Get(last.self, "currentOrder") = 3
  /\ last.result = "ok"
  /\ chain[Created].cats = <<2, 3, 3>>

\* C8: a state returned by combine has rank 0 whatever the ranks of its
\* operands, so each of the six appends on it succeeds and appends its
\* fragment to the combined text.
C8_Step ==
  /\ \A o \in Objects :
       (chain[o].root = "combine" /\ chain[o].cats = <<>>) =>
          Get(o, "currentOrder") = 0
  /\ (/\ last'.op \in AppendOps
      /\ chain[last'.self].root = "combine"
      /\ chain[last'.self].cats = <<>>) =>
        /\ last'.result = "ok"
        /\ heap'[Len(heap')].currentSelector =
             Get(last'.self, "currentSelector")
               \o DocFragment(DocRank(last'.op), last'.value)

C8_CombinedRankZero == [][C8_Step]_vars

\* C8 witness: element('b') has just succeeded on combine(id('a'), '+',
\* id('a')), whose operands have rank 2, and gave '#a + #ab'.
C8_Witness ==
  /\ last.op = "element"
  /\ last.result = "ok"
  /\ chain[last.self].root = "combine"
  /\ heap[Created].currentSelector =
       <<"#", "a", " ", "+", " ", "#", "a", "b">>

\* C9: an append, whether it returns or raises, and a combine change no
\* existing state: the receiver, the operands, the initial builder and every
\* other state keep their text, rank and kind.
C9_Step ==
  (last'.op \in AppendOps \cup {"combine"}) =>
     /\ \A o \in Objects : heap'[o] = heap[o]
     /\ heap'[Builder] = cssSelectorBuilder

C9_NoSideEffects == [][C9_Step]_vars

\* C9 witness: after combine(a, '+', a) the operand a has just been
\* stringified to its original text.
C9_Witness ==
  /\ last.op = "stringify"
  /\ last.self = 2
  /\ last.returned = <<"a">>
  /\ Len(heap) = 3
  /\ chain[3].root = "combine"
  /\ heap[3].currentSelector = <<"a", " ", "+", " ", "a">>

\* C10: stringify changes the text of its receiver only: the receiver's
\* rank and kind and every other state stay as they were, so an append on a
\* consumed state is still validated against its rank and, when it succeeds,
\* yields a text holding the new fragment only.
C10_Step ==
  /\ (last'.op = "stringify") =>
        /\ Len(heap') = Len(heap)
        /\ \A o \in Objects \ {last'.self} : heap'[o] = heap[o]
        /\ DOMAIN heap'[last'.self] = DOMAIN heap[last'.self]
        /\ \A n \in DOMAIN heap[last'.self] \ {"currentSelector"} :
              heap'[last'.self][n] = heap[last'.self][n]
  /\ (last'.op \in AppendOps /\ chain[last'.self].reads > 0) =>
        /\ last'.result =
             DocOutcome(LastCat(chain[last'.self]), DocRank(last'.op))
        /\ last'.result = "ok" =>
             heap'[Len(heap')].currentSelector =
               DocFragment(DocRank(last'.op), last'.value)

C10_StringifyFrame == [][C10_Step]_vars

\* C10 witness: id(..) on a consumed state of rank 2 has just raised
\* DuplicateUniquePartError.
C10_Witness ==
  /\ last.op = "id"
  /\ chain[last.self].cats = <<2>>
  /\ chain[last.self].reads = 1
  /\ last.result = DuplicateUniquePartError

====
